---- MODULE Spec2Model ----
(***************************************************************************)
(* A model of src/extract.py: the Extract session (wavelength grid, ADR    *)
(* curve, dither pattern) and its operations.                              *)
(*                                                                         *)
(* Numbers.  Inputs are integers.  A floating-point result is a record     *)
(*   [k |-> "num",  n |-> p, d |-> q]   the rational p/q, q > 0, reduced   *)
(*   [k |-> "inf",  n |-> s, d |-> 0]   s = 1: +inf, s = -1: -inf          *)
(*   [k |-> "nan",  n |-> 0, d |-> 0]   not-a-number                       *)
(*   [k |-> "root", n |-> p, d |-> q]   the square root of p/q (p/q >= 0)  *)
(* so that numpy's division by zero, 0/0 and sqrt are what they are in the *)
(* code.  Rounding of finite values is not modelled: arithmetic is exact.  *)
(* Positions and ADR offsets are in units of 1/21000 arcsec.               *)
(***************************************************************************)
EXTENDS Integers, Sequences, FiniteSets, TLC

VARIABLES wave, ADRx, ADRy, dither_pattern, call, ret

vars == <<wave, ADRx, ADRy, dither_pattern, call, ret>>
session == <<wave, ADRx, ADRy, dither_pattern>>

(***************************************************************************)
(* Arithmetic helpers                                                      *)
(***************************************************************************)
Abs(x) == IF x < 0 THEN -x ELSE x
Min(a, b) == IF a <= b THEN a ELSE b
Max(a, b) == IF a >= b THEN a ELSE b
Sign(x) == IF x > 0 THEN 1 ELSE IF x < 0 THEN -1 ELSE 0

RECURSIVE GCD(_, _)
GCD(a, b) == IF b = 0 THEN a ELSE GCD(b, a % b)

\* The sum of s[lo..hi], by halves (the grid has 1036 samples).
RECURSIVE SumRange(_, _, _)
SumRange(s, lo, hi) ==
    IF lo > hi THEN 0
    ELSE IF lo = hi THEN s[lo]
    ELSE SumRange(s, lo, (lo + hi) \div 2) + SumRange(s, (lo + hi) \div 2 + 1, hi)
SumSeq(s) == SumRange(s, 1, Len(s))

NaN == [k |-> "nan", n |-> 0, d |-> 0]
Inf(s) == [k |-> "inf", n |-> s, d |-> 0]
Num(p, q) ==
    LET g == GCD(Abs(p), Abs(q))
    IN  [k |-> "num", n |-> (Sign(q) * p) \div g, d |-> Abs(q) \div g]
Zero == Num(0, 1)

\* A guarded division that skips the division when the divisor is 0.
FDiv_skips_zero(p, q) ==
    IF q = 0 THEN Zero ELSE Num(p, q)

\* numpy's p / q on finite floats: x/0 is +-inf, 0/0 is nan.
FDiv(p, q) ==
    IF q = 0 THEN (IF p = 0 THEN NaN ELSE Inf(Sign(p)))
    ELSE Num(p, q)

\* numpy's sqrt(s) / q: sqrt of a negative number is nan; for q > 0 the
\* value sqrt(s)/q is kept as the root of s/q^2.
FSqrtDiv(s, q) ==
    IF s < 0 THEN NaN
    ELSE IF q = 0 THEN (IF s = 0 THEN NaN ELSE Inf(1))
    ELSE IF q < 0 THEN
        (IF s = 0 THEN Zero ELSE [k |-> "negroot", n |-> Num(s, q * q).n, d |-> Num(s, q * q).d])
    ELSE [k |-> "root", n |-> Num(s, q * q).n, d |-> Num(s, q * q).d]

(***************************************************************************)
(* The session: __init__, get_wave, get_ADR, set_dither_pattern            *)
(***************************************************************************)
NWave == 1036
WaveLo == 3470
WaveHi == 5540

\* np.linspace(lo, hi, n), for end points whose steps are whole numbers.
Linspace(lo, hi, n) ==
    [i \in 1..n |-> IF n = 1 THEN lo ELSE lo + ((hi - lo) * (i - 1)) \div (n - 1)]

\* np.linspace(3470, 5540, 1036): the step (5540 - 3470) / 1035 is exactly 2.
get_wave == Linspace(WaveLo, WaveHi, NWave)

\* np.polyval(np.polyfit(wADR, ADR, 3), w): the least-squares cubic through
\* (3500,-0.74) (4000,-0.4) (4500,-0.08) (5000,0.08) (5500,0.20) is, with
\* u = (w - 4500)/500,  (-2148 + 5075 u - 900 u^2 - 35 u^3) / 21000.
\* Evaluated by Horner's rule (as polyval does) in units of 1/21000, each
\* step rounded down; exact when w - 4500 is a multiple of 500.
ADRpoly(w) ==
    LET x == w - 4500
        a == ((-35 * x) \div 500) - 900
        b == ((a * x) \div 500) + 5075
    IN  ((b * x) \div 500) - 2148

\* np.cos(np.deg2rad(angle)), np.sin(np.deg2rad(angle)) for whole quarter turns.
Angles == {0, 90, 180, 270}
CosDeg(angle) == CASE angle = 0 -> 1 [] angle = 90 -> 0 [] angle = 180 -> -1 [] angle = 270 -> 0
SinDeg(angle) == CASE angle = 0 -> 0 [] angle = 90 -> 1 [] angle = 180 -> 0 [] angle = 270 -> -1

ADRxOf(w, angle) == [i \in 1..Len(w) |-> CosDeg(angle) * ADRpoly(w[i])]
ADRyOf(w, angle) == [i \in 1..Len(w) |-> SinDeg(angle) * ADRpoly(w[i])]

\* The default dither pattern, in units of 1/100 arcsec.
DefaultDither == <<<<0, 0>>, <<127, -73>>, <<127, 73>>>>
DitherPatterns == {<<<<0, 0>>>>, <<<<0, 0>>, <<100, 0>>>>}

\* An optional argument: None, or one value.
None == {}
Some(v) == {v}
Given(opt) == CHOOSE v \in opt : TRUE

NoCall == [op |-> "none"]
NoRet == [op |-> "none"]

\* The polynomial evaluated at the five calibration wavelengths instead of
\* the session's grid.
get_ADR_at_calibration_points(angle) ==
    /\ ADRx' = ADRxOf(<<3500, 4000, 4500, 5000, 5500>>, angle)
    /\ ADRy' = ADRyOf(<<3500, 4000, 4500, 5000, 5500>>, angle)
    /\ call' = [op |-> "get_ADR", angle |-> angle]
    /\ ret' = NoRet
    /\ UNCHANGED <<wave, dither_pattern>>

\* get_ADR(angle): recomputes the ADR curve on the session's wavelength grid.
get_ADR(angle) ==
    /\ ADRx' = ADRxOf(wave, angle)
    /\ ADRy' = ADRyOf(wave, angle)
    /\ call' = [op |-> "get_ADR", angle |-> angle]
    /\ ret' = NoRet
    /\ UNCHANGED <<wave, dither_pattern>>

\* set_dither_pattern(p): None selects the default pattern.
DitherOf(p) == IF p = None THEN DefaultDither ELSE Given(p)

set_dither_pattern(p) ==
    /\ dither_pattern' = DitherOf(p)
    /\ call' = [op |-> "set_dither_pattern", dither_pattern |-> p]
    /\ ret' = NoRet
    /\ UNCHANGED <<wave, ADRx, ADRy>>

\* Caller-supplied wavelength grids (wave is not None), all increasing.
MaxWave == 6
GridStarts == {3500, 4000}
GridSteps == {100, 500}
Waves ==
    {[i \in 1..n |-> s + st * (i - 1)] : n \in 1..MaxWave, s \in GridStarts, st \in GridSteps}

\* Extract(wave): wave = None takes get_wave(); then get_ADR() with the
\* default angle 0 and set_dither_pattern() with the default pattern.
Extract_init(w) ==
    /\ wave = (IF w = None THEN get_wave ELSE Given(w))
    /\ ADRx = ADRxOf(wave, 0)
    /\ ADRy = ADRyOf(wave, 0)
    /\ dither_pattern = DitherOf(None)
    /\ call = NoCall
    /\ ret = NoRet

(***************************************************************************)
(* intersection_area(d, R, r)                                              *)
(***************************************************************************)
\* The area is kept as a multiple of pi where the code returns one
\* (pi * min(R, r)^2, and 0 = 0 * pi); the lens branch keeps the two arccos
\* arguments and the squared radii its formula is evaluated on.
PiTimes(c) == [k |-> "pi", c |-> c]
Lens(d, R, r) ==
    [k |-> "lens",
     cosalpha |-> FDiv(d * d + r * r - R * R, 2 * d * r),
     cosbeta |-> FDiv(d * d + R * R - r * r, 2 * d * R),
     r2 |-> r * r, R2 |-> R * R]

\* The enclosure test with < in place of <=.
intersection_area_strict(d, R, r) ==
    IF d < Abs(R - r) THEN PiTimes(Min(R, r) * Min(R, r))
    ELSE IF d >= r + R THEN PiTimes(0)
    ELSE Lens(d, R, r)

intersection_area(d, R, r) ==
    IF d <= Abs(R - r) THEN PiTimes(Min(R, r) * Min(R, r))
    ELSE IF d >= r + R THEN PiTimes(0)
    ELSE Lens(d, R, r)

call_intersection_area(d, R, r) ==
    /\ call' = [op |-> "intersection_area", d |-> d, R |-> R, r |-> r]
    /\ ret' = [op |-> "intersection_area", value |-> intersection_area(d, R, r)]
    /\ UNCHANGED session

(***************************************************************************)
(* get_spectrum(data, error, mask, weights)                                *)
(* The arrays are sequences of fiber rows, each a sequence over channels.  *)
(***************************************************************************)
NFib(a) == Len(a)
NCh(a) == Len(a[1])

\* np.sum(x, axis=0)[c] for the three sums of the code.
SumDMW_no_weight(data, mask, weights, c) ==
    SumSeq([f \in 1..NFib(data) |-> data[f][c] * mask[f][c]])
SumDMW(data, mask, weights, c) ==
    SumSeq([f \in 1..NFib(data) |-> data[f][c] * mask[f][c] * weights[f][c]])
SumMW2(mask, weights, c) ==
    SumSeq([f \in 1..NFib(mask) |-> mask[f][c] * weights[f][c] * weights[f][c]])
SumE2MW(error, mask, weights, c) ==
    SumSeq([f \in 1..NFib(error) |-> error[f][c] * error[f][c] * mask[f][c] * weights[f][c]])

\* The k-th smallest element of a sequence (k = 1 is the minimum).
KthSmallest(s, k) ==
    CHOOSE v \in {s[i] : i \in 1..Len(s)} :
        /\ Cardinality({i \in 1..Len(s) : s[i] < v}) < k
        /\ Cardinality({i \in 1..Len(s) : s[i] <= v}) >= k

\* Twice np.median(s): the middle element, or the mean of the two middle
\* elements when the length is even.
Median2(s) ==
    IF Len(s) % 2 = 1 THEN 2 * KthSmallest(s, (Len(s) + 1) \div 2)
    ELSE KthSmallest(s, Len(s) \div 2) + KthSmallest(s, Len(s) \div 2 + 1)

\* w < np.median(w) * 0.1, in exact arithmetic: 20 w < 2 median(w).
LowWeight(w, c) == 20 * w[c] < Median2(w)

\* The raw quotients of lines 378-381.
RawSpectrum(data, mask, weights) ==
    [c \in 1..NCh(data) |-> FDiv(SumDMW(data, mask, weights, c), SumMW2(mask, weights, c))]
RawError(error, mask, weights) ==
    [c \in 1..NCh(error) |-> FSqrtDiv(SumE2MW(error, mask, weights, c), SumMW2(mask, weights, c))]

\* spectrum[sel] = np.nan
Sel(w) == {c \in 1..Len(w) : LowWeight(w, c)}
SetNaN(x, sel) == [c \in 1..Len(x) |-> IF c \in sel THEN NaN ELSE x[c]]

get_spectrum_keeps_error(data, error, mask, weights) ==
    LET w == [c \in 1..NCh(data) |-> SumMW2(mask, weights, c)]
    IN  [op |-> "get_spectrum",
         spectrum |-> SetNaN(RawSpectrum(data, mask, weights), Sel(w)),
         spectrum_error |-> RawError(error, mask, weights)]

get_spectrum(data, error, mask, weights) ==
    LET spectrum == RawSpectrum(data, mask, weights)
        spectrum_error == RawError(error, mask, weights)
        w == [c \in 1..NCh(data) |-> SumMW2(mask, weights, c)]
        sel == Sel(w)
    IN  [op |-> "get_spectrum",
         spectrum |-> SetNaN(spectrum, sel),
         spectrum_error |-> SetNaN(spectrum_error, sel)]

call_get_spectrum(data, error, mask, weights) ==
    /\ call' = [op |-> "get_spectrum", data |-> data, error |-> error,
                mask |-> mask, weights |-> weights]
    /\ ret' = get_spectrum(data, error, mask, weights)
    /\ UNCHANGED session

\* Inputs: every (fiber, channel) cell is one of these (data, error, mask, weight).
MaxChan == 3
FiberCounts == {1, 2}
Cells ==
    { [d |-> 2, e |-> 1, m |-> 1, w |-> 0],
      [d |-> 3, e |-> 2, m |-> 1, w |-> 1],
      [d |-> -1, e |-> 1, m |-> 1, w |-> 4],
      [d |-> 1, e |-> 1, m |-> 0, w |-> 4] }
CellArrays ==
    UNION { [1..nf -> [1..nc -> Cells]] : nf \in FiberCounts, nc \in 1..MaxChan }
Field(a, fld) == [f \in 1..Len(a) |-> [c \in 1..Len(a[1]) |-> a[f][c][fld]]]

DefaultSession == Extract_init(Some(<<4000, 4500, 5000>>))

InitSpectrum == DefaultSession
NextSpectrum ==
    /\ call = NoCall
    /\ \E a \in CellArrays :
            call_get_spectrum(Field(a, "d"), Field(a, "e"), Field(a, "m"), Field(a, "w"))
SpecSpectrum == InitSpectrum /\ [][NextSpectrum]_vars

(***************************************************************************)
(* Properties of get_spectrum (checked under SpecSpectrum)                 *)
(***************************************************************************)
IsSpectrumCall == call.op = "get_spectrum"
Channels == 1..NCh(call.data)
\* w[c] = sum over fibers of mask * weights^2, from the call's arguments.
ArgW == [c \in Channels |-> SumSeq([f \in 1..NFib(call.mask) |->
            call.mask[f][c] * call.weights[f][c] * call.weights[f][c]])]
\* w[c] < 0.1 * median(w)
ArgLow(c) == 20 * ArgW[c] < Median2(ArgW)

\* C1: every channel with w[c] < 0.1 * median(w) is NaN in spectrum and in
\* spectrum_error, and every other channel holds the raw quotient
\* sum(data*mask*weights)/w[c], resp. sqrt(sum(error^2*mask*weights))/w[c],
\* computed for all channels before the overwrite.
C1_LowWeightChannelsAreNaN ==
    IsSpectrumCall =>
        \A c \in Channels :
            IF ArgLow(c)
            THEN ret.spectrum[c] = NaN /\ ret.spectrum_error[c] = NaN
            ELSE /\ ret.spectrum[c] =
                        FDiv(SumSeq([f \in 1..NFib(call.data) |->
                                call.data[f][c] * call.mask[f][c] * call.weights[f][c]]),
                             ArgW[c])
                 /\ ret.spectrum_error[c] =
                        FSqrtDiv(SumSeq([f \in 1..NFib(call.data) |->
                                call.error[f][c] * call.error[f][c]
                                    * call.mask[f][c] * call.weights[f][c]]),
                                 ArgW[c])

\* A channel of positive weight is overwritten while another keeps a finite
\* quotient and a finite, non-zero error.
C1_Witness ==
    /\ IsSpectrumCall
    /\ \E c1, c2 \in Channels :
        /\ ArgW[c1] > 0 /\ ArgLow(c1)
        /\ ret.spectrum[c1] = NaN /\ ret.spectrum_error[c1] = NaN
        /\ ~ArgLow(c2)
        /\ ret.spectrum[c2].k = "num" /\ ret.spectrum[c2].n # 0
        /\ ret.spectrum_error[c2].k = "root" /\ ret.spectrum_error[c2].n # 0

ZeroWeightChannel(c) == \A f \in 1..NFib(call.weights) : call.weights[f][c] = 0
MaskNonNegative ==
    \A f \in 1..NFib(call.mask) : \A c \in Channels : call.mask[f][c] >= 0

\* C2: with mask >= 0, a channel whose weights are zero for every fiber is
\* NaN in spectrum and spectrum_error whatever the other channels hold, also
\* when median(w) = 0 and the threshold test does not select it.
C2_ZeroWeightChannelIsNaN ==
    (IsSpectrumCall /\ MaskNonNegative) =>
        \A c \in Channels :
            ZeroWeightChannel(c) =>
                ret.spectrum[c] = NaN /\ ret.spectrum_error[c] = NaN

\* A zero-weight channel that the threshold test does not select
\* (median(w) = 0), beside a channel of positive weight.
C2_Witness ==
    /\ IsSpectrumCall /\ MaskNonNegative
    /\ \E c, c2 \in Channels :
        /\ ZeroWeightChannel(c) /\ Median2(ArgW) = 0 /\ ~ArgLow(c)
        /\ ArgW[c2] > 0
        /\ ret.spectrum[c] = NaN /\ ret.spectrum_error[c] = NaN

\* Two fibers with identical data, error and weight rows and mask = 1.
TwoIdenticalFibers ==
    /\ IsSpectrumCall
    /\ NFib(call.data) = 2
    /\ call.data[1] = call.data[2]
    /\ call.error[1] = call.error[2]
    /\ call.weights[1] = call.weights[2]
    /\ \A f \in 1..2 : \A c \in Channels : call.mask[f][c] = 1
\* The result for the first of the two fibers alone.
SingleFiber ==
    get_spectrum(<<call.data[1]>>, <<call.error[1]>>, <<call.mask[1]>>, <<call.weights[1]>>)
SingleLow(c) ==
    LowWeight([cc \in Channels |-> call.weights[1][cc] * call.weights[1][cc]], c)

\* C3 as stated: on every channel not rejected as low-weight, spectrum and
\* spectrum_error of the two identical fibers equal those of one fiber alone.
C3_SameAsSingleFiber ==
    TwoIdenticalFibers =>
        \A c \in Channels :
            ~ArgLow(c) =>
                /\ ret.spectrum[c] = SingleFiber.spectrum[c]
                /\ ret.spectrum_error[c] = SingleFiber.spectrum_error[c]

\* a = b / sqrt(2): both not finite and alike, or a^2 * 2 = b^2.
IsOverSqrt2(a, b) ==
    IF a.k = "root" /\ b.k = "root"
    THEN 2 * a.n * b.d = b.n * a.d
    ELSE a = b /\ a.k \in {"nan", "inf"}

\* C3 amended: the same channels are rejected as for one fiber alone; on the
\* others spectrum equals the single-fiber value data/weight, and
\* spectrum_error is the single-fiber error divided by sqrt(2).
C3_SpectrumSameErrorOverSqrt2 ==
    TwoIdenticalFibers =>
        \A c \in Channels :
            /\ ArgLow(c) <=> SingleLow(c)
            /\ ~ArgLow(c) =>
                /\ ret.spectrum[c] = SingleFiber.spectrum[c]
                /\ ret.spectrum[c] =
                     FDiv(call.data[1][c] * call.weights[1][c],
                          call.weights[1][c] * call.weights[1][c])
                /\ IsOverSqrt2(ret.spectrum_error[c], SingleFiber.spectrum_error[c])

\* Two identical fibers with a kept channel of finite value and non-zero error,
\* and a rejected one.
C3_Witness ==
    /\ TwoIdenticalFibers
    /\ \E c, c2 \in Channels :
        /\ ~ArgLow(c) /\ ArgLow(c2)
        /\ ret.spectrum[c].k = "num"
        /\ ret.spectrum_error[c].k = "root" /\ ret.spectrum_error[c].n > 0
        /\ ret.spectrum_error[c] # SingleFiber.spectrum_error[c]

(***************************************************************************)
(* intersection_area as a function of its inputs: SpecArea                 *)
(***************************************************************************)
MaxLen == 5
Lengths == 0..MaxLen

InitArea == DefaultSession
NextArea ==
    /\ call = NoCall
    /\ \E d \in Lengths, R \in Lengths, r \in Lengths : call_intersection_area(d, R, r)
SpecArea == InitArea /\ [][NextArea]_vars

IsAreaCall == call.op = "intersection_area"
Smaller(a, b) == IF a <= b THEN a ELSE b
Distance(a, b) == IF a >= b THEN a - b ELSE b - a

\* C4: for d, R, r >= 0 the result is pi*min(R,r)^2 if d <= |R - r|, else 0
\* if d >= R + r, else the lens formula; so d = 0 gives pi*min(R,r)^2 and
\* d = R + r gives 0 (also when min(R,r) = 0 and both tests hold), and the
\* enclosure and disjoint results do not change when R and r are swapped.
C4_CasePolicy ==
    IsAreaCall =>
        LET d == call.d
            R == call.R
            r == call.r
            enclosed == PiTimes(Smaller(R, r) * Smaller(R, r))
        IN  /\ d <= Distance(R, r) => ret.value = enclosed
            /\ (d > Distance(R, r) /\ d >= R + r) => ret.value = PiTimes(0)
            /\ (d > Distance(R, r) /\ d < R + r) =>
                    /\ ret.value.k = "lens"
                    /\ ret.value.cosalpha = FDiv(d * d + r * r - R * R, 2 * d * r)
                    /\ ret.value.cosbeta = FDiv(d * d + R * R - r * r, 2 * d * R)
                    /\ ret.value.cosalpha.k = "num" /\ ret.value.cosbeta.k = "num"
            /\ d = 0 => ret.value = enclosed
            /\ d = R + r => ret.value = PiTimes(0)
            /\ (d <= Distance(R, r) \/ d >= R + r) => ret.value = intersection_area(d, r, R)

\* d = R + r with min(R, r) = 0 < max(R, r): both tests hold, the first
\* branch is taken and returns pi * 0.
C4_Witness ==
    /\ IsAreaCall
    /\ Smaller(call.R, call.r) = 0 /\ call.d > 0
    /\ call.d = call.R + call.r /\ call.d <= Distance(call.R, call.r)
    /\ ret.value = PiTimes(0)

(***************************************************************************)
(* get_psf_curve_of_growth(psf)                                            *)
(* A PSF image is [z, x, y]: the three layers ravelled in row-major order. *)
(* A radius sqrt(x^2 + y^2) is the record [k |-> "root", n |-> x^2 + y^2,  *)
(* d |-> 1].                                                               *)
(***************************************************************************)
\* np.meshgrid(x, y), ravelled: sample k = (i - 1) * Len(x) + j holds x[j], y[i].
MeshX(x, y) == [k \in 1..(Len(x) * Len(y)) |-> x[((k - 1) % Len(x)) + 1]]
MeshY(x, y) == [k \in 1..(Len(x) * Len(y)) |-> y[((k - 1) \div Len(x)) + 1]]

Root(n) == [k |-> "root", n |-> n, d |-> 1]
\* r = np.sqrt(psf[1]**2 + psf[2]**2).ravel(), as the radicands.
Radicand(psf) == [k \in 1..Len(psf.x) |-> psf.x[k] * psf.x[k] + psf.y[k] * psf.y[k]]

\* np.argsort(r): numpy's default sort is not stable, so any permutation
\* that puts r in ascending order is a possible outcome.
RECURSIVE SortedOrders(_, _)
SortedOrders(r, todo) ==
    IF todo = {} THEN {<<>>}
    ELSE UNION { {<<i>> \o rest : rest \in SortedOrders(r, todo \ {i})} :
                 i \in {j \in todo : \A l \in todo : r[j] <= r[l]} }
ArgSorts(r) == SortedOrders(r, 1..Len(r))

\* psf[1].max()
MaxOf(s) == CHOOSE v \in {s[i] : i \in 1..Len(s)} : \A i \in 1..Len(s) : s[i] <= v

\* r[inds] <= maxr, on radicands: sqrt(n) <= maxr.
RadiusLeq(n, maxr) == maxr >= 0 /\ n <= maxr * maxr
RadiusLt(n, maxr) == maxr > 0 /\ n < maxr * maxr

\* x[sel] for a boolean selection: the selected elements in order.
Compress(x, sel) ==
    LET Kept(p) == p[2]
        kept == SelectSeq([i \in 1..Len(x) |-> <<x[i], sel[i]>>], Kept)
    IN  [i \in 1..Len(kept) |-> kept[i][1]]

\* np.cumsum
CumSum(x) == [i \in 1..Len(x) |-> SumSeq(SubSeq(x, 1, i))]

\* The function with the outcome inds of np.argsort(r) given.
curve_of_growth_strict(psf, inds) ==
    LET r == Radicand(psf)
        maxr == MaxOf(psf.x)
        sel == [i \in 1..Len(inds) |-> RadiusLt(r[inds[i]], maxr)]
        zs == Compress([i \in 1..Len(inds) |-> psf.z[inds[i]]], sel)
        rs == Compress([i \in 1..Len(inds) |-> r[inds[i]]], sel)
    IN  [op |-> "get_psf_curve_of_growth",
         r |-> [i \in 1..Len(rs) |-> Root(rs[i])],
         cog |-> [i \in 1..Len(zs) |-> FDiv(CumSum(zs)[i], SumSeq(zs))]]

curve_of_growth(psf, inds) ==
    LET r == Radicand(psf)
        maxr == MaxOf(psf.x)
        sel == [i \in 1..Len(inds) |-> RadiusLeq(r[inds[i]], maxr)]
        zs == Compress([i \in 1..Len(inds) |-> psf.z[inds[i]]], sel)
        rs == Compress([i \in 1..Len(inds) |-> r[inds[i]]], sel)
    IN  [op |-> "get_psf_curve_of_growth",
         r |-> [i \in 1..Len(rs) |-> Root(rs[i])],
         cog |-> [i \in 1..Len(zs) |-> FDiv(CumSum(zs)[i], SumSeq(zs))]]

get_psf_curve_of_growth(psf) ==
    \E inds \in ArgSorts(Radicand(psf)) :
        /\ call' = [op |-> "get_psf_curve_of_growth", psf |-> psf]
        /\ ret' = curve_of_growth(psf, inds)
        /\ UNCHANGED session

\* PSF images: a coordinate grid from two axes and intensities 0..MaxZ.
MaxZ == 2
PsfAxes ==
    { [x |-> <<-1, 0, 1>>, y |-> <<0, 1>>],
      [x |-> <<0, 1, 2>>, y |-> <<0, 1>>],
      [x |-> <<-1, 0>>, y |-> <<-1, 0>>],
      [x |-> <<-1, 0, 1>>, y |-> <<-1, 0>>] }
PsfImages ==
    UNION { { [z |-> z, x |-> MeshX(a.x, a.y), y |-> MeshY(a.x, a.y)] :
              z \in [1..(Len(a.x) * Len(a.y)) -> 0..MaxZ] } : a \in PsfAxes }

InitCog == DefaultSession
NextCog ==
    /\ call = NoCall
    /\ \E psf \in PsfImages : get_psf_curve_of_growth(psf)
SpecCog == InitCog /\ [][NextCog]_vars

IsCogCall == call.op = "get_psf_curve_of_growth"
\* The samples within the included window: radius <= max of the x grid.
Window ==
    LET m == MaxOf(call.psf.x)
    IN  {k \in 1..Len(call.psf.x) :
            m >= 0 /\ call.psf.x[k] * call.psf.x[k] + call.psf.y[k] * call.psf.y[k] <= m * m}
WindowTotal == SumSeq([k \in 1..Len(call.psf.z) |-> IF k \in Window THEN call.psf.z[k] ELSE 0])
NonNegativePsf == \A k \in 1..Len(call.psf.z) : call.psf.z[k] >= 0
FracLeq(a, b) == a.k = "num" /\ b.k = "num" /\ a.n * b.d <= b.n * a.d

SectionStart_last_takes_rest(len, n, k) == (k - 1) * (len \div n)
SectionStart(len, n, k) == (k - 1) * (len \div n) + Min(k - 1, len % n)
SectionEnd(len, n, k) == IF k = n THEN len ELSE SectionStart(len, n, k + 1)
array_split(s, n) ==
    [k \in 1..n |-> SubSeq(s, SectionStart(Len(s), n, k) + 1, SectionEnd(Len(s), n, k))]

\* sel = (self.wave > wrange[0]) * (self.wave <= wrange[1]);  I[sel]
Selected(w, wrange) ==
    Compress([i \in 1..Len(w) |-> i - 1],
             [i \in 1..Len(w) |-> w[i] > wrange[1] /\ w[i] <= wrange[2]])

\* int(np.mean(xi)) for non-negative indices: the mean, truncated.
TruncMean_rounded(xi) == (2 * SumSeq(xi) + Len(xi)) \div (2 * Len(xi))
TruncMean(xi) == SumSeq(xi) \div Len(xi)

\* ichunk = np.array([np.mean(xi) for xi in np.array_split(I[sel], nchunks)],
\* dtype=int); the mean of an empty section is nan, which does not convert.
ichunk(Isel, nchunks) ==
    [k \in 1..nchunks |-> TruncMean(array_split(Isel, nchunks)[k])]
IchunkFails(Isel, nchunks) ==
    \E k \in 1..nchunks : Len(array_split(Isel, nchunks)[k]) = 0

\* interp_kind after lines 271-274, and the warnings logged there.
ValidKinds == {"linear", "cubic"}
CorrectedKind_as_given(interp_kind) == interp_kind
CorrectedKind(interp_kind) == IF interp_kind \notin ValidKinds THEN "linear" ELSE interp_kind
KindWarnings(interp_kind) ==
    IF interp_kind \notin ValidKinds
    THEN << [ev |-> "warning", msg |-> "interp_kind must be \"linear\" or \"cubic\""],
            [ev |-> "warning", msg |-> "Using \"linear\" for interp_kind"] >>
    ELSE <<>>

\* The methods scipy's griddata accepts for two-dimensional points.
GriddataMethods == {"nearest", "linear", "cubic"}

\* np.ma.median(np.ma.array(chunk, mask=mchunk<1e-8), axis=1) for fiber f,
\* doubled (m2): the median of the columns of the chunk whose mask is not
\* below 1e-8; masked when there is none.
Median2OfFiber(data, mask, f, cols) ==
    LET good == Compress([i \in 1..Len(cols) |-> data[f][cols[i] + 1]],
                         [i \in 1..Len(cols) |-> mask[f][cols[i] + 1] >= 1])
    IN  IF good = <<>> THEN [masked |-> TRUE, m2 |-> 0]
        ELSE [masked |-> FALSE, m2 |-> Median2(good)]

\* One pass of the loop body (lines 278-289) for the chunk with columns
\* cols (of data) and mcols (of mask) and the counter at cnt.
ChunkImage(env, cols, mcols, cnt) ==
    LET a == Len(env.data)
        med == [f \in 1..a |-> Median2OfFiber(env.data, env.mask, f, cols)]
        total == SumSeq([f \in 1..a |-> med[f].m2])
        shown == [f \in 1..a |-> ~med[f].masked /\ total # 0]
        j == env.ichunk[cnt + 1]
    IN  [ev |-> "griddata",
         method |-> env.kind,
         cols |-> cols, mcols |-> mcols, cnt |-> cnt, adr |-> j,
         S |-> [f \in 1..a |->
                    <<env.xloc[f] - env.ADRx[j + 1], env.yloc[f] - env.ADRy[j + 1]>>],
         points |-> Compress([f \in 1..a |->
                        <<env.xloc[f] - env.ADRx[j + 1], env.yloc[f] - env.ADRy[j + 1]>>], shown),
         values |-> Compress([f \in 1..a |->
                        FDiv(med[f].m2, total)], shown),
         convolved |-> env.convolve_image]

\* The for loop over zip(array_split(data[:, sel]), array_split(mask[:, sel])):
\* one pass per pair, in order, cnt starting at 0 and advancing once per pass.
ChunkLoop(env, chunks, mchunks) ==
    [k \in 1..Min(Len(chunks), Len(mchunks)) |->
        ChunkImage(env, chunks[k], mchunks[k], k - 1)]

\* The whole call on a session (w, adrx, adry) with the arguments a.  The
\* result holds the exception raised, if any, the split of I[sel] (line
\* 264), the events in order (warnings, griddata calls) and the returned
\* coordinate axes.
make_collapsed_image(w, adrx, adry, a) ==
    LET N == a.boxsize \div a.scale
        Isel == Selected(w, a.wrange)
        kind == CorrectedKind(a.interp_kind)
        env == [data |-> a.data, mask |-> a.mask, xloc |-> a.xloc, yloc |-> a.yloc,
                ADRx |-> adrx, ADRy |-> adry, kind |-> kind,
                convolve_image |-> a.convolve_image,
                ichunk |-> ichunk(Isel, a.nchunks)]
        xl == a.xc - a.boxsize \div 2
        xh == a.xc + a.boxsize \div 2
        yl == a.yc - a.boxsize \div 2
        yh == a.yc + a.boxsize \div 2
    IN  IF IchunkFails(Isel, a.nchunks)
        THEN [op |-> "make_collapsed_image",
              error |-> "ValueError: cannot convert float NaN to integer",
              isplit |-> array_split(Isel, a.nchunks), events |-> <<>>,
              x |-> <<>>, y |-> <<>>]
        ELSE IF kind \notin GriddataMethods
        THEN [op |-> "make_collapsed_image",
              error |-> "ValueError: Unknown interpolation method",
              isplit |-> array_split(Isel, a.nchunks),
              events |-> KindWarnings(a.interp_kind), x |-> <<>>, y |-> <<>>]
        ELSE [op |-> "make_collapsed_image", error |-> "none",
              isplit |-> array_split(Isel, a.nchunks),
              events |-> KindWarnings(a.interp_kind) \o
                         ChunkLoop(env, array_split(Isel, a.nchunks),
                                   array_split(Isel, a.nchunks)),
              x |-> [i \in 1..N |-> Linspace(xl, xh, N)[i] - a.xc],
              y |-> [i \in 1..N |-> Linspace(yl, yh, N)[i] - a.yc]]

call_make_collapsed_image(a) ==
    /\ call' = [op |-> "make_collapsed_image", xc |-> a.xc, yc |-> a.yc,
                xloc |-> a.xloc, yloc |-> a.yloc, data |-> a.data, mask |-> a.mask,
                scale |-> a.scale, boxsize |-> a.boxsize, wrange |-> a.wrange,
                nchunks |-> a.nchunks, convolve_image |-> a.convolve_image,
                interp_kind |-> a.interp_kind]
    /\ ret' = make_collapsed_image(wave, ADRx, ADRy, a)
    /\ UNCHANGED session

\* scale = 0.25 and boxsize = 4 arcsec, in units of 1/21000 arcsec.
DefaultScale == 5250
DefaultBoxsize == 84000

\* The arguments of a call centred at (0, 0) with the default scale and boxsize.
CollapseArgs(fs, ncols, wrange, nchunks, convolve_image, interp_kind) ==
    [xc |-> 0, yc |-> 0, xloc |-> fs.xloc, yloc |-> fs.yloc,
     data |-> [f \in 1..Len(fs.xloc) |-> [i \in 1..ncols |-> (3 * f + i) % 4]],
     mask |-> [f \in 1..Len(fs.xloc) |-> [i \in 1..ncols |-> IF (f + i) % 3 = 0 THEN 0 ELSE 1]],
     scale |-> DefaultScale, boxsize |-> DefaultBoxsize, wrange |-> wrange,
     nchunks |-> nchunks, convolve_image |-> convolve_image, interp_kind |-> interp_kind]

(***************************************************************************)
(* make_collapsed_image on a constructed session: SpecCollapse             *)
(***************************************************************************)
DefaultNChunks == 11
MaxChunks == 4
ChunkCounts == (1..MaxChunks) \cup {DefaultNChunks}
WRanges == {<<3470, 5540>>, <<3500, 4500>>, <<3900, 4200>>, <<5000, 4000>>}
Kinds == {"linear", "cubic", "nearest", "quintic"}
\* Fiber positions.
FiberSets ==
    { [xloc |-> <<0, 21000>>, yloc |-> <<0, 10500>>],
      [xloc |-> <<0, 21000, -21000>>, yloc |-> <<0, 0, 42000>>] }

InitCollapse == (\E g \in Waves : Extract_init(Some(g))) \/ Extract_init(None)
\* A call with explicit arguments, on a caller-supplied grid.
CollapseOnce ==
    /\ call.op # "make_collapsed_image"
    /\ wave # get_wave
    /\ \E fs \in FiberSets, wr \in WRanges, n \in ChunkCounts, cv \in BOOLEAN, kind \in Kinds :
            call_make_collapsed_image(CollapseArgs(fs, Len(wave), wr, n, cv, kind))
\* A call with the signature's wrange and nchunks, on any grid.
CollapseDefaults ==
    /\ call.op # "make_collapsed_image"
    /\ \E fs \in FiberSets, cv \in BOOLEAN, kind \in Kinds :
            call_make_collapsed_image(
                CollapseArgs(fs, Len(wave), <<WaveLo, WaveHi>>, DefaultNChunks, cv, kind))
TurnFirst ==
    /\ call.op # "make_collapsed_image"
    /\ \E angle \in Angles : get_ADR(angle)
NextCollapse == CollapseOnce \/ CollapseDefaults \/ TurnFirst
SpecCollapse == InitCollapse /\ [][NextCollapse]_vars

IsCollapseCall == call.op = "make_collapsed_image"
CollapseDone == IsCollapseCall /\ ret.error = "none"
\* The selected columns (numbered from 0), from the call's arguments.
ArgSel ==
    Compress([i \in 1..Len(wave) |-> i - 1],
             [i \in 1..Len(wave) |-> wave[i] > call.wrange[1] /\ wave[i] <= call.wrange[2]])
GridEvents == SelectSeq(ret.events, LAMBDA e : e.ev = "griddata")
Warnings == SelectSeq(ret.events, LAMBDA e : e.ev = "warning")
RECURSIVE Concat(_)
Concat(ss) == IF ss = <<>> THEN <<>> ELSE Head(ss) \o Concat(Tail(ss))
\* The blocks are contiguous, do not overlap and cover the selection in order.
Partitions(blocks) == Concat(blocks) = ArgSel
DataBlocks == [k \in 1..Len(GridEvents) |-> GridEvents[k].cols]
MaskBlocks == [k \in 1..Len(GridEvents) |-> GridEvents[k].mcols]
NearEqual(blocks) ==
    \A k1, k2 \in 1..Len(blocks) : Len(blocks[k1]) - Len(blocks[k2]) <= 1

\* C5 as stated: exactly nchunks contiguous blocks covering the selection in
\* order, sizes differing by at most one, the extra columns being in the
\* last block when the selection is not a multiple of nchunks.
C5_LastBlockAbsorbsRemainder ==
    CollapseDone =>
        \A blocks \in {DataBlocks, MaskBlocks, ret.isplit} :
            /\ Len(blocks) = call.nchunks
            /\ Partitions(blocks)
            /\ NearEqual(blocks)
            /\ Len(ArgSel) % call.nchunks # 0 =>
                    Len(blocks[call.nchunks]) > Len(ArgSel) \div call.nchunks

\* C5 amended: exactly nchunks contiguous blocks covering the selection in
\* order, sizes differing by at most one; the first (L mod nchunks) blocks
\* hold one column more than the others, L the number of selected columns.
C5_FirstBlocksHoldExtras ==
    CollapseDone =>
        \A blocks \in {DataBlocks, MaskBlocks, ret.isplit} :
            /\ Len(blocks) = call.nchunks
            /\ Partitions(blocks)
            /\ NearEqual(blocks)
            /\ \A k \in 1..call.nchunks :
                    Len(blocks[k]) = (Len(ArgSel) \div call.nchunks)
                        + (IF k <= Len(ArgSel) % call.nchunks THEN 1 ELSE 0)

\* The default grid with the default wrange and nchunks: 1035 columns in 11
\* blocks, the first one column longer than the last.
C5_Witness ==
    /\ CollapseDone
    /\ wave = get_wave
    /\ call.nchunks = DefaultNChunks
    /\ Len(ArgSel) % call.nchunks = 1
    /\ Len(DataBlocks[1]) = Len(DataBlocks[call.nchunks]) + 1
    /\ Len(MaskBlocks[1]) = Len(MaskBlocks[2]) + 1

\* C6: the call never fails because of interp_kind (it fails only when a
\* block is empty, whatever interp_kind is); "linear" and "cubic" are used
\* as given for every chunk with no warning; for any other value a warning
\* is logged before the first chunk is interpolated and every chunk uses
\* "linear".
C6_InvalidKindCorrected ==
    IsCollapseCall =>
        /\ ret.error = "none" <=> call.nchunks <= Len(ArgSel)
        /\ ret.error # "none" => ret.events = <<>>
        /\ ret.error = "none" =>
            /\ Len(GridEvents) = call.nchunks
            /\ IF call.interp_kind \in {"linear", "cubic"}
               THEN /\ Warnings = <<>>
                    /\ \A k \in 1..Len(GridEvents) : GridEvents[k].method = call.interp_kind
               ELSE /\ Warnings # <<>>
                    /\ ret.events[1].ev = "warning"
                    /\ \A i, j \in 1..Len(ret.events) :
                          (ret.events[i].ev = "warning" /\ ret.events[j].ev = "griddata") => i < j
                    /\ \A k \in 1..Len(GridEvents) : GridEvents[k].method = "linear"

\* A kind that griddata itself would accept is still replaced, with the
\* warning ahead of several chunks.
C6_Witness ==
    /\ CollapseDone
    /\ call.interp_kind = "nearest"
    /\ Len(ret.events) = 2 + call.nchunks /\ call.nchunks >= 2
    /\ ret.events[1].ev = "warning" /\ ret.events[3].ev = "griddata"
    /\ ret.events[3].method = "linear"

\* C10: when nchunks <= number of selected wavelengths, the k-th chunk
\* (k from 0) shifts the fiber positions by ADRx[j], ADRy[j] with j the mean
\* of the chunk's full-grid indices, truncated; j lies within the chunk's
\* index range and the counter advances by one per chunk.
C10_ChunkADRIndex ==
    (IsCollapseCall /\ call.nchunks <= Len(ArgSel)) =>
        /\ ret.error = "none"
        /\ Len(GridEvents) = call.nchunks
        /\ \A k \in 1..Len(GridEvents) :
            LET e == GridEvents[k]
                j == SumSeq(e.cols) \div Len(e.cols)
            IN  /\ e.cnt = k - 1
                /\ e.adr = j
                /\ j * Len(e.cols) <= SumSeq(e.cols)
                /\ SumSeq(e.cols) < (j + 1) * Len(e.cols)
                /\ e.cols[1] <= j /\ j <= e.cols[Len(e.cols)]
                /\ e.S = [f \in 1..Len(call.xloc) |->
                            <<call.xloc[f] - ADRx[j + 1], call.yloc[f] - ADRy[j + 1]>>]

\* Several chunks with different ADR offsets, one of them with a mean index
\* that ends in .5 and is truncated.
C10_Witness ==
    /\ CollapseDone
    /\ call.nchunks >= 2
    /\ GridEvents[1].S # GridEvents[2].S
    /\ \E k \in 1..Len(GridEvents) :
          LET e == GridEvents[k]
          IN  /\ (2 * SumSeq(e.cols)) % (2 * Len(e.cols)) = Len(e.cols)
              /\ e.adr = (SumSeq(e.cols) - Len(e.cols) \div 2) \div Len(e.cols)
              /\ e.adr < e.cols[Len(e.cols)]

(***************************************************************************)
(* The PSF builders and build_weights.  astropy's Gaussian2D and Moffat2D  *)
(* and scipy's interpolators are outside this source: an intensity layer   *)
(* is the record of the model it is evaluated from, and an interpolated    *)
(* weight the record of the point it is evaluated at.                      *)
(***************************************************************************)
\* np.arange(lo, hi, step) for step > 0.
Arange(lo, hi, step) ==
    [i \in 1..(IF hi > lo THEN (hi - lo + step - 1) \div step ELSE 0) |-> lo + (i - 1) * step]

\* x, y = np.arange(-boxsize/2, boxsize/2 + scale, scale); np.meshgrid(x, y)
PsfAxis(boxsize, scale) == Arange(0 - boxsize \div 2, boxsize \div 2 + scale, scale)
PsfGridX(boxsize, scale) == MeshX(PsfAxis(boxsize, scale), PsfAxis(boxsize, scale))
PsfGridY(boxsize, scale) == MeshY(PsfAxis(boxsize, scale), PsfAxis(boxsize, scale))

\* fibradius = 0.75 arcsec, in the tophat's length unit of 1/8 arcsec.
FibRadius == 6

\* tophat_psf: rings of radius ri around the tophat edge, each with the
\* overlap area of the fiber at distance ri over the fiber's area; the
\* samples are interpolated onto the grid, gaps set to 0, the sum to 1.
tophat_psf(radius, boxsize, scale, fibradius) ==
    LET r == Arange(radius - fibradius, radius + (fibradius * 7) \div 6, fibradius \div 6)
    IN  [op |-> "tophat_psf",
         z |-> [model |-> "griddata linear, nan as 0, over the sum",
                rings |-> [i \in 1..Len(r) |->
                            [ri |-> r[i],
                             area |-> intersection_area(r[i], radius, fibradius),
                             over |-> PiTimes(fibradius * fibradius)]]],
         x |-> PsfGridX(boxsize, scale), y |-> PsfGridY(boxsize, scale)]

gaussian_psf(xstd, ystd, theta, boxsize, scale) ==
    [op |-> "gaussian_psf",
     z |-> [model |-> "Gaussian2D over the sum",
            x_stddev |-> xstd, y_stddev |-> ystd, theta |-> theta],
     x |-> PsfGridX(boxsize, scale), y |-> PsfGridY(boxsize, scale)]

\* alpha is given in tenths (the default 3.5 is 35); gamma is
\* 0.5 * seeing / sqrt(2^(1/alpha) - 1).
DefaultAlpha10 == 35
moffat_psf(seeing, boxsize, scale, alpha10) ==
    [op |-> "moffat_psf",
     z |-> [model |-> "Moffat2D over the sum", alpha10 |-> alpha10,
            gamma |-> [half_seeing_over_sqrt_of_2_to_1_over_alpha_minus_1 |-> seeing]],
     x |-> PsfGridX(boxsize, scale), y |-> PsfGridY(boxsize, scale)]

call_tophat_psf(radius, boxsize, scale) ==
    /\ call' = [op |-> "tophat_psf", radius |-> radius, boxsize |-> boxsize, scale |-> scale]
    /\ ret' = tophat_psf(radius, boxsize, scale, FibRadius)
    /\ UNCHANGED session

call_gaussian_psf(xstd, ystd, theta, boxsize, scale) ==
    /\ call' = [op |-> "gaussian_psf", xstd |-> xstd, ystd |-> ystd, theta |-> theta,
                boxsize |-> boxsize, scale |-> scale]
    /\ ret' = gaussian_psf(xstd, ystd, theta, boxsize, scale)
    /\ UNCHANGED session

call_moffat_psf(seeing, boxsize, scale) ==
    /\ call' = [op |-> "moffat_psf", seeing |-> seeing, boxsize |-> boxsize, scale |-> scale]
    /\ ret' = moffat_psf(seeing, boxsize, scale, DefaultAlpha10)
    /\ UNCHANGED session

\* I(x, y) * area / scale^2 with I = LinearNDInterpolator(T, psf[0],
\* fill_value=0.0): the fill value outside the hull of the grid, the
\* interpolant at (x, y) inside it.
Weight(psf, px, py, scale) ==
    IF \/ \A k \in 1..Len(psf.x) : psf.x[k] < px
       \/ \A k \in 1..Len(psf.x) : psf.x[k] > px
       \/ \A k \in 1..Len(psf.y) : psf.y[k] < py
       \/ \A k \in 1..Len(psf.y) : psf.y[k] > py
    THEN [k |-> "fill", x |-> 0, y |-> 0, scale |-> scale]
    ELSE [k |-> "interp", x |-> px, y |-> py, scale |-> scale]

\* weights[f, i] for every fiber f and every wavelength i of the grid.
build_weights(adrx, adry, nwave, xc, yc, ifux, ifuy, psf) ==
    LET scale == Abs(psf.x[2] - psf.x[1])
    IN  [op |-> "build_weights",
         weights |-> [f \in 1..Len(ifux) |-> [i \in 1..nwave |->
                        Weight(psf, ifux[f] - adrx[i] - xc, ifuy[f] - adry[i] - yc, scale)]]]

\* build_weights that shifts the stored ADR curve by the center in place.
call_build_weights_shifts_ADR(xc, yc, ifux, ifuy, psf) ==
    /\ call' = [op |-> "build_weights", xc |-> xc, yc |-> yc, ifux |-> ifux,
                ifuy |-> ifuy, psf |-> psf]
    /\ ret' = build_weights(ADRx, ADRy, Len(wave), 0, 0, ifux, ifuy, psf)
    /\ ADRx' = [i \in 1..Len(ADRx) |-> ADRx[i] + xc]
    /\ ADRy' = [i \in 1..Len(ADRy) |-> ADRy[i] + yc]
    /\ UNCHANGED <<wave, dither_pattern>>

call_build_weights(xc, yc, ifux, ifuy, psf) ==
    /\ call' = [op |-> "build_weights", xc |-> xc, yc |-> yc, ifux |-> ifux,
                ifuy |-> ifuy, psf |-> psf]
    /\ ret' = build_weights(ADRx, ADRy, Len(wave), xc, yc, ifux, ifuy, psf)
    /\ UNCHANGED session

(***************************************************************************)
(* The session and every operation on it: Spec                             *)
(***************************************************************************)
\* A PSF grid in units of 1/21000 arcsec: 1 arcsec on a side, 0.5 arcsec pixels.
WeightPsf ==
    [z |-> <<0, 1, 0, 1, 4, 1, 0, 1, 0>>,
     x |-> PsfGridX(21000, 10500), y |-> PsfGridY(21000, 10500)]

Init == (\E g \in Waves : Extract_init(Some(g))) \/ Extract_init(None)

Turn == \E angle \in Angles : get_ADR(angle)
SetDither == \E p \in {Some(d) : d \in DitherPatterns} \cup {None} : set_dither_pattern(p)
Area == \E a \in {<<0, 1, 1>>, <<1, 2, 2>>, <<3, 1, 1>>} : call_intersection_area(a[1], a[2], a[3])
Tophat == \E radius \in {4, 8} : call_tophat_psf(radius, 32, 8)
Gaussian == \E xstd \in {1, 2} : call_gaussian_psf(xstd, 1, 0, 4, 1)
Moffat == \E seeing \in {1, 2} : call_moffat_psf(seeing, 4, 1)
Growth ==
    \E z \in {<<0, 1, 0, 1, 2, 0>>, <<1, 1, 1, 1, 1, 1>>} :
        get_psf_curve_of_growth([z |-> z, x |-> MeshX(<<0, 1, 2>>, <<0, 1>>),
                                 y |-> MeshY(<<0, 1, 2>>, <<0, 1>>)])
Collapse ==
    \E kind \in {"cubic", "nearest"} :
        call_make_collapsed_image(
            CollapseArgs([xloc |-> <<0, 21000>>, yloc |-> <<0, 10500>>], Len(wave),
                         <<WaveLo, WaveHi>>, Min(DefaultNChunks, Len(wave)), FALSE, kind))
Weights ==
    \E xc \in {0, 2100} :
        call_build_weights(xc, 0, <<0, 10500>>, <<0, -2100>>, WeightPsf)
Spectrum ==
    \E w \in {<<<<1, 4>>, <<4, 4>>>>, <<<<0, 1>>, <<0, 4>>>>} :
        call_get_spectrum(<<<<2, 3>>, <<-1, 1>>>>, <<<<1, 2>>, <<1, 1>>>>,
                          <<<<1, 1>>, <<1, 0>>>>, w)

Next ==
    \/ Turn \/ SetDither
    \/ Area \/ Tophat \/ Gaussian \/ Moffat \/ Growth \/ Collapse \/ Weights \/ Spectrum
Spec == Init /\ [][Next]_vars

LengthsAgree == Len(ADRx) = Len(wave) /\ Len(ADRy) = Len(wave)

\* C8: after construction and any sequence of get_ADR and set_dither_pattern
\* calls ADRx and ADRy are as long as the wavelength grid; the ADR curve is
\* recomputed only by get_ADR; set_dither_pattern leaves ADRx, ADRy and the
\* grid unchanged, and get_ADR leaves the dither pattern and the grid unchanged.
C8_ADRFollowsGrid ==
    /\ []LengthsAgree
    /\ [][ /\ call'.op = "set_dither_pattern" => UNCHANGED <<ADRx, ADRy, wave>>
           /\ call'.op = "get_ADR" => UNCHANGED <<dither_pattern, wave>>
           /\ <<ADRx', ADRy'>> # <<ADRx, ADRy>> => call'.op = "get_ADR" ]_vars

\* The dither pattern is replaced after the curve was recomputed at another angle.
C8_Witness ==
    /\ call.op = "set_dither_pattern"
    /\ dither_pattern # DefaultDither
    /\ ADRx # ADRxOf(wave, 0) /\ ADRy # ADRyOf(wave, 0)
    /\ LengthsAgree /\ Len(wave) > 1

Builders ==
    {"intersection_area", "tophat_psf", "gaussian_psf", "moffat_psf",
     "get_psf_curve_of_growth", "make_collapsed_image", "build_weights", "get_spectrum"}

\* C9: no builder or extraction operation changes the session state: the
\* wavelength grid, ADRx, ADRy and the dither pattern are after the call
\* what they were before it (and so after any sequence of such calls).
C9_BuildersLeaveSession ==
    [][ call'.op \in Builders =>
            /\ wave' = wave /\ ADRx' = ADRx /\ ADRy' = ADRy
            /\ dither_pattern' = dither_pattern ]_vars

\* A builder has returned on a session whose angle and dither pattern were
\* both reset before.
C9_Witness ==
    /\ call.op = "build_weights" /\ call.xc # 0
    /\ \E f \in 1..Len(ret.weights) : \E i \in 1..Len(wave) : ret.weights[f][i].k = "interp"
    /\ dither_pattern # DefaultDither
    /\ ADRy # ADRyOf(wave, 0)

====
